---- MODULE Spec2Model ----
(***************************************************************************)
(* State-machine model of the BuildPro browser client: the Root Controller *)
(* (App), the fetch hook (useData), the authenticated HTTP client, the     *)
(* Login/Registration panel, the Projects panel and the generic CRUD       *)
(* panel, together with the requests in flight and the REST server they    *)
(* talk to.                                                                *)
(*                                                                         *)
(* One action is one event-handler run (a click, a form submission, the    *)
(* resolution of an awaited request) followed by the render and the        *)
(* effects React runs for the state it set.                                *)
(*                                                                         *)
(* Encodings: JS null is "null" for string-typed state and -1 for          *)
(* id-typed state; a nullable object is a sequence of length 0 or 1.       *)
(***************************************************************************)
EXTENDS Integers, Sequences, FiniteSets, TLC

\* ------------------------------------------------------------------ bounds
\* Requests in flight at once (sent and not yet resolved).
MaxInFlight == 2
\* Highest id the server assigns in any table.
MaxId == 2
\* Chart instances left undestroyed by unmounted dashboards are counted up to
\* this many (the count never decreases, so it stands for "this many or more").
MaxLeaked == 1

\* --------------------------------------------------------------- constants
Null == "null"
NullId == -1

\* Access tokens the login endpoint may issue.
Tokens == {"T1", "T2"}
\* The text a user types into the name/title field of a form; the rows the
\* server holds at the start carry "a".
Vals == {"b"}

\* Sidebar.navItems
Sections ==
    {"dashboard", "projects", "documents", "preconstruction", "financials",
     "quality-safety"}

\* The endpoints of the four generic CRUD sections (App.renderContent).
CrudEndpoints == {"documents", "bids", "change_orders", "inspections"}
CrudSections == {"documents", "preconstruction", "financials", "quality-safety"}

EndpointOf(section) ==
    CASE section = "documents" -> "documents"
      [] section = "preconstruction" -> "bids"
      [] section = "financials" -> "change_orders"
      [] section = "quality-safety" -> "inspections"
      [] OTHER -> Null

\* title.slice(0, -1) of the CRUD section's title prop, as its alerts print it
Singular(endpoint) ==
    CASE endpoint = "documents" -> "Document"
      [] endpoint = "bids" -> "Bid"
      [] endpoint = "change_orders" -> "Change Order"
      [] endpoint = "inspections" -> "Inspection"
      [] OTHER -> ""

Tables == {"projects"} \cup CrudEndpoints

\* ----------------------------------------------------------- JS semantics
\* if (x) on a value that is null or a number
Truthy(id) == id # NullId /\ id # 0
\* if (s) on a value that is null or a string
TruthyStr(s) == s # Null /\ s # ""

\* ------------------------------------------------------------- sequences
RemoveAt(s, i) == SubSeq(s, 1, i - 1) \o SubSeq(s, i + 1, Len(s))

RECURSIVE MapById(_, _, _)
\* prev.map(item => item.id === id ? row : item)
MapById(prev, id, row) ==
    IF prev = << >> THEN << >>
    ELSE <<IF Head(prev).id = id THEN row ELSE Head(prev)>>
         \o MapById(Tail(prev), id, row)

RECURSIVE FilterOutId(_, _)
\* prev.filter(item => item.id !== id)
FilterOutId(prev, id) ==
    IF prev = << >> THEN << >>
    ELSE (IF Head(prev).id # id THEN <<Head(prev)>> ELSE << >>)
         \o FilterOutId(Tail(prev), id)

\* [row, ...prev]
Prepend(row, prev) == <<row>> \o prev

\* The functional update handleSubmit / handleFormSubmit passes to the setter
\* after a successful await: replace by id when editing, prepend when creating.
ApplySavedAppend(prev, method, id, row) ==
    IF method = "PUT" THEN Append(FilterOutId(prev, id), row) ELSE Append(prev, row)

ApplySaved(prev, method, id, row) ==
    IF method = "PUT" THEN MapById(prev, id, row) ELSE Prepend(row, prev)

RECURSIVE FilterByPid(_, _)
FilterByPid(rows, pid) ==
    IF rows = << >> THEN << >>
    ELSE (IF Head(rows).pid = pid THEN <<Head(rows)>> ELSE << >>)
         \o FilterByPid(Tail(rows), pid)

RECURSIVE FilterOutPid(_, _)
FilterOutPid(rows, pid) ==
    IF rows = << >> THEN << >>
    ELSE (IF Head(rows).pid # pid THEN <<Head(rows)>> ELSE << >>)
         \o FilterOutPid(Tail(rows), pid)

Ids(rows) == {rows[i].id : i \in DOMAIN rows}

\* projects.find(p => p.id === id): a sequence of length 0 (undefined) or 1
RECURSIVE Find(_, _)
Find(rows, id) ==
    IF rows = << >> THEN << >>
    ELSE IF Head(rows).id = id THEN <<Head(rows)>> ELSE Find(Tail(rows), id)

\* -------------------------------------------------------------- strings
\* String.prototype.toLowerCase, on the letters the searched texts use
LowerChar(c) == CASE c = "A" -> "a" [] c = "B" -> "b" [] OTHER -> c
ToLowerCase(str) == [i \in DOMAIN str |-> LowerChar(str[i])]

\* String.prototype.includes
Includes(str, q) ==
    \E i \in 0..(Len(str) - Len(q)) : SubSeq(str, i + 1, i + Len(q)) = q

\* A filter that would compare the texts as they are typed.
FilteredProjectsCaseSensitive(projects, searchTerm, filterStatus) ==
    SelectSeq(projects, LAMBDA project :
        /\ \/ Includes(project.name, searchTerm)
           \/ /\ project.location # << >> /\ project.location[1] # << >>
              /\ Includes(project.location[1], searchTerm)
        /\ filterStatus = "all" \/ project.status = filterStatus)

RECURSIVE FilteredProjects(_, _, _)
\* ProjectsView.filteredProjects: initialProjects.filter(...); project.location
\* is null (<< >>) or a string, and `location && ...` needs it non-empty.
FilteredProjects(projects, searchTerm, filterStatus) ==
    IF projects = << >> THEN << >>
    ELSE LET project == Head(projects)
             matchesSearch ==
                 \/ Includes(ToLowerCase(project.name), ToLowerCase(searchTerm))
                 \/ /\ project.location # << >> /\ project.location[1] # << >>
                    /\ Includes(ToLowerCase(project.location[1]), ToLowerCase(searchTerm))
             matchesFilter == filterStatus = "all" \/ project.status = filterStatus
         IN  (IF matchesSearch /\ matchesFilter THEN <<project>> ELSE << >>)
             \o FilteredProjects(Tail(projects), searchTerm, filterStatus)

\* ---------------------------------------------------------------- state
VARIABLES
    token,              \* localStorage 'authToken' (Null when absent)
    isAuthenticated,    \* App state
    activeSection,      \* App state
    selectedProjectId,  \* App state
    rootHook,           \* App's useData(isAuthenticated ? 'projects' : null)
    login,              \* LoginForm state while it is mounted
    pv,                 \* ProjectsView state while it is mounted
    cv,                 \* CrudView state (its useData hook included) while mounted
    net,                \* requests awaited by the client, in dispatch order
    srv,                \* the server's tables
    srvNext,            \* the server's next id per table
    charts,             \* DashboardView's Chart.js instances
    emitted             \* the observable effects of the last step, in code order

vars ==
    <<token, isAuthenticated, activeSection, selectedProjectId, rootHook, login,
      pv, cv, net, srv, srvNext, charts, emitted>>

\* useData's three useState cells, and the endpoint of the last effect run
\* (React's memory of the dependency array; "unmounted" before the first run).
HookInit == [data |-> << >>, loading |-> TRUE, error |-> Null, dep |-> "unmounted"]

LoginInit == [isSignUp |-> FALSE, error |-> "", loading |-> FALSE]

BlankForm == [val |-> "", pid |-> NullId]
FormOf(item) == [val |-> item.val, pid |-> item.pid]

\* ProjectsView: searchTerm, filterStatus, showForm, editingProject,
\* projectFormData. A text that is searched is a sequence of characters.
PvInit ==
    [searchTerm |-> << >>, filterStatus |-> "all",
     showForm |-> FALSE, editing |-> << >>, form |-> BlankForm]
\* CrudView: useData(endpoint), showForm, editingItem, formData
CvInit == [hook |-> HookInit, showForm |-> FALSE, editing |-> << >>, form |-> BlankForm]

\* DashboardView's two instance refs (progressChartInstance, statusChartInstance):
\* "none" (null), "live" (a chart not destroyed) or "destroyed"; and the charts
\* of dashboards no longer mounted that were never destroyed.
ChartsInit == [bar |-> "none", pie |-> "none", leakedBar |-> 0, leakedPie |-> 0]

\* -------------------------------------------------------------- requests
NoResp == [data |-> << >>, token |-> Null]

Request(method, endpoint, owner, bearer, itemId, body) ==
    [method |-> method, endpoint |-> endpoint, owner |-> owner, live |-> TRUE,
     bearer |-> bearer, itemId |-> itemId, body |-> body,
     stage |-> "sent", resp |-> NoResp]

NoReq == Request("", "", "", Null, NullId, BlankForm)

\* api.interceptors.request: the Authorization header of a request sent now
Bearer(tok) == IF TruthyStr(tok) THEN tok ELSE Null

\* What a failed request carries: err.response?.status (0: no response) and
\* err.response?.data?.error ("" when absent).
Failures ==
    {[status |-> 401, error |-> ""], [status |-> 422, error |-> ""],
     [status |-> 500, error |-> "Server exploded"], [status |-> 500, error |-> ""],
     [status |-> 0, error |-> ""]}
\* The failures tried on a request whose handler reads at most the error string.
WriteFailures == {[status |-> 500, error |-> "Server exploded"], [status |-> 0, error |-> ""]}
NoFail == [status |-> 0, error |-> ""]

\* ---------------------------------------------------------------- events
\* ev: "dispatch" (req sent), "resolve" (the await on req returned: msg is "ok"
\* or "fail", fail what it failed with), "setItem"/"removeItem" (localStorage),
\* "setAuth" (setIsAuthenticated(true)), "alert", "confirm" (msg: the answer).
Event(ev, req, tok, msg, fail) ==
    [ev |-> ev, req |-> req, tok |-> tok, msg |-> msg, fail |-> fail]
Dispatched(req) == Event("dispatch", req, Null, "", NoFail)
ResolvedOk(req) == Event("resolve", req, Null, "ok", NoFail)
ResolvedFail(req, f) == Event("resolve", req, Null, "fail", f)
Alert(msg) == Event("alert", NoReq, Null, msg, NoFail)
Confirm(answer) == Event("confirm", NoReq, Null, IF answer THEN "yes" ELSE "no", NoFail)

\* ------------------------------------------------------------ fetch hook
\* useData's effect for one render: React runs it when `endpoint` differs
\* from the endpoint of the last run.
UseDataEffectNoDeps(h, endpoint, owner, bearer) ==
    IF ~TruthyStr(endpoint)
    THEN [hook |-> [h EXCEPT !.loading = FALSE, !.dep = endpoint], sent |-> << >>]
    ELSE [hook |-> [h EXCEPT !.loading = TRUE, !.dep = endpoint],
          sent |-> <<Request("GET", endpoint, owner, bearer, NullId, BlankForm)>>]

UseDataEffect(h, endpoint, owner, bearer) ==
    IF endpoint = h.dep
    THEN [hook |-> h, sent |-> << >>]
    ELSE IF ~TruthyStr(endpoint)
    THEN [hook |-> [h EXCEPT !.loading = FALSE, !.dep = endpoint], sent |-> << >>]
    ELSE [hook |-> [h EXCEPT !.loading = TRUE, !.dep = endpoint],
          sent |-> <<Request("GET", endpoint, owner, bearer, NullId, BlankForm)>>]

\* fetchData's catch block
FetchErrorMessageSwapped(status, error, endpoint) ==
    IF status = 422 THEN "Authentication failed. Your session may have expired."
    ELSE IF status = 401 THEN "Invalid request format for " \o endpoint \o "."
    ELSE "Failed to fetch " \o endpoint \o ". "
         \o (IF error # "" THEN error ELSE "Please try again.")

FetchErrorMessage(status, error, endpoint) ==
    IF status = 401 THEN "Authentication failed. Your session may have expired."
    ELSE IF status = 422 THEN "Invalid request format for " \o endpoint \o "."
    ELSE "Failed to fetch " \o endpoint \o ". "
         \o (IF error # "" THEN error ELSE "Please try again.")

\* fetchData after a successful await: setData, setError(null), setLoading(false)
FetchOk(h, data) == [h EXCEPT !.data = data, !.error = Null, !.loading = FALSE]
\* fetchData after a failed await: setError(message), setLoading(false)
FetchFailed(h, f, endpoint) ==
    [h EXCEPT !.error = FetchErrorMessage(f.status, f.error, endpoint),
              !.loading = FALSE]

\* ------------------------------------------------------------- rendering
\* The component App puts in the page for the given state: LoginForm when
\* unauthenticated, else the child renderContent() returns.
MainComponentNoGuard(auth, sel, projects, section) ==
    IF Truthy(sel)
    THEN IF Find(projects, sel) = << >> THEN "Placeholder" ELSE "ProjectDetailView"
    ELSE CASE section = "dashboard" -> "DashboardView"
           [] section = "projects" -> "ProjectsView"
           [] section \in CrudSections -> "CrudView"
           [] OTHER -> "DashboardView"

MainComponent(auth, sel, projects, section) ==
    IF ~auth THEN "LoginForm"
    ELSE IF Truthy(sel)
    THEN IF Find(projects, sel) = << >> THEN "Placeholder" ELSE "ProjectDetailView"
    ELSE CASE section = "dashboard" -> "DashboardView"
           [] section = "projects" -> "ProjectsView"
           [] section \in CrudSections -> "CrudView"
           [] OTHER -> "DashboardView"

Mounted == MainComponent(isAuthenticated, selectedProjectId, rootHook.data, activeSection)

\* What a panel that takes (loading, error, items) shows: ProjectsView,
\* DashboardView and CrudView all start with the same two early returns.
PanelBody(h) ==
    IF h.loading THEN [kind |-> "loading", message |-> "", items |-> << >>]
    ELSE IF TruthyStr(h.error) THEN [kind |-> "error", message |-> h.error, items |-> << >>]
    ELSE [kind |-> "list", message |-> "", items |-> h.data]

\* The page: the mounted component and what it displays.
View ==
    LET c == Mounted IN
    CASE c = "LoginForm" ->
           [panel |-> c, kind |-> "form", message |-> login.error, items |-> << >>]
      [] c = "Placeholder" ->
           [panel |-> c, kind |-> "loading", message |-> "Loading project details...",
            items |-> << >>]
      [] c = "ProjectDetailView" ->
           [panel |-> c, kind |-> "detail", message |-> "",
            items |-> Find(rootHook.data, selectedProjectId)]
      [] c = "CrudView" ->
           [panel |-> c] @@ PanelBody(cv.hook)
      [] OTHER ->
           [panel |-> c] @@ PanelBody(rootHook)

\* ----------------------------------------------------------- dashboard
\* DashboardView's effect: destroy the instances the refs hold, then create
\* both charts when there are projects and the canvases are in the page.
DashboardEffect(ch, projects, canvas) ==
    LET destroyed == [ch EXCEPT !.bar = IF @ = "live" THEN "destroyed" ELSE @,
                                !.pie = IF @ = "live" THEN "destroyed" ELSE @]
    IN  IF Len(projects) > 0
        THEN [destroyed EXCEPT !.bar = IF canvas THEN "live" ELSE @,
                               !.pie = IF canvas THEN "live" ELSE @]
        ELSE destroyed

\* The effect declares no cleanup: the instances of a DashboardView that is
\* unmounted stay as they are, and its refs are gone.
DashboardUnmount(ch) ==
    [bar |-> "none", pie |-> "none",
     leakedBar |-> IF ch.bar = "live" /\ ch.leakedBar < MaxLeaked
                   THEN ch.leakedBar + 1 ELSE ch.leakedBar,
     leakedPie |-> IF ch.pie = "live" /\ ch.leakedPie < MaxLeaked
                   THEN ch.leakedPie + 1 ELSE ch.leakedPie]

\* The step called App's setData / setProjects: `projects` is a new array.
ProjectsReplaced(ev) ==
    /\ ev # << >>
    /\ ev[1].ev = "resolve" /\ ev[1].msg = "ok"
    /\ \/ ev[1].req.owner = "App" /\ ev[1].req.method = "GET"
       \/ ev[1].req.owner = "ProjectsView"

\* The charts after a render of `new` in place of `old` with App's hook rh:
\* the effect runs on mount and when `projects` changed ([projects]).
ChartsAfter(old, new, rh, ev) ==
    LET canvas == PanelBody(rh).kind = "list" IN
    IF new = "DashboardView"
    THEN IF old # "DashboardView" THEN DashboardEffect(charts, rh.data, canvas)
         ELSE IF ProjectsReplaced(ev) THEN DashboardEffect(charts, rh.data, canvas)
         ELSE charts
    ELSE IF old = "DashboardView" THEN DashboardUnmount(charts)
    ELSE charts

\* --------------------------------------------------------------- commit
\* Requests whose issuing component was unmounted by this render.
Orphan(reqs, old, new) ==
    [i \in DOMAIN reqs |->
        IF old # new /\ reqs[i].owner = old
        THEN [reqs[i] EXCEPT !.live = FALSE] ELSE reqs[i]]

\* The render after a handler has set state to the given values, and the
\* effects of that render: the root's useData effect, the mount or unmount of
\* the main component (React keeps a component's state only while the same
\* component type stays at its position), the CrudView's useData effect.
\* Child effects run before the parent's.
Commit(tok, auth, sec, sel, rh, lg, p, c, reqs, ev) ==
    LET old == Mounted
        r == UseDataEffect(rh, IF auth THEN "projects" ELSE Null, "App", Bearer(tok))
        new == MainComponent(auth, sel, r.hook.data, sec)
        c0 == IF new = "CrudView" THEN (IF old = "CrudView" THEN c ELSE CvInit) ELSE CvInit
        ce == IF new = "CrudView"
              THEN UseDataEffect(c0.hook, EndpointOf(sec), "CrudView", Bearer(tok))
              ELSE [hook |-> c0.hook, sent |-> << >>]
        out == ce.sent \o r.sent
    IN  /\ Len(reqs) + Len(out) <= MaxInFlight
        /\ token' = tok
        /\ isAuthenticated' = auth
        /\ activeSection' = sec
        /\ selectedProjectId' = sel
        /\ rootHook' = r.hook
        /\ login' = IF new = "LoginForm" /\ old = "LoginForm" THEN lg ELSE LoginInit
        /\ pv' = IF new = "ProjectsView" /\ old = "ProjectsView" THEN p ELSE PvInit
        /\ cv' = [c0 EXCEPT !.hook = ce.hook]
        /\ net' = Orphan(reqs, old, new) \o out
        /\ charts' = ChartsAfter(old, new, rh, ev)
        /\ emitted' = ev \o [i \in DOMAIN out |-> Dispatched(out[i])]
        /\ UNCHANGED <<srv, srvNext>>

\* A handler that leaves the root state alone.
Local(lg, p, c, reqs, ev) ==
    Commit(token, isAuthenticated, activeSection, selectedProjectId, rootHook,
           lg, p, c, reqs, ev)

\* ----------------------------------------------------------------- Init
\* The page after its first render and effects, for either content of
\* localStorage; the server holds one project and one document of it.
InitialProject == [id |-> 1, val |-> "a"]
InitialDocument == [id |-> 1, val |-> "a", pid |-> 1, res |-> "documents"]

\* The first render with `tok` in localStorage, the server holding the given
\* project and document.
InitWith(tok, project, document) ==
    LET auth == TruthyStr(tok)
        r == UseDataEffect(HookInit, IF auth THEN "projects" ELSE Null, "App",
                           Bearer(tok))
    IN  /\ token = tok
        /\ isAuthenticated = auth
        /\ activeSection = "dashboard"
        /\ selectedProjectId = NullId
        /\ rootHook = r.hook
        /\ login = LoginInit
        /\ pv = PvInit
        /\ cv = CvInit
        /\ net = r.sent
        /\ srv = [t \in Tables |->
                    CASE t = "projects" -> <<project>>
                      [] t = "documents" -> <<document>>
                      [] OTHER -> << >>]
        /\ srvNext = [t \in Tables |-> IF srv[t] = << >> THEN 1 ELSE 2]
        /\ charts = ChartsInit
        /\ emitted = [i \in DOMAIN r.sent |-> Dispatched(r.sent[i])]

Init == \E tok \in {Null} \cup Tokens : InitWith(tok, InitialProject, InitialDocument)

\* ------------------------------------------------------------ LoginForm
\* The "Need an account? Sign Up" / "Already have an account? Sign In" button.
ToggleMode ==
    /\ Mounted = "LoginForm"
    /\ Local([login EXCEPT !.isSignUp = ~login.isSignUp, !.error = ""], pv, cv, net, << >>)

\* LoginForm.handleSubmit up to its await; the submit button is disabled
\* while loading.
SubmitAuth ==
    /\ Mounted = "LoginForm"
    /\ ~login.loading
    /\ LET req == Request("POST", IF login.isSignUp THEN "register" ELSE "login",
                          "LoginForm", Bearer(token), NullId, BlankForm)
       IN  Local([login EXCEPT !.loading = TRUE, !.error = ""], pv, cv,
                 Append(net, req), <<Dispatched(req)>>)

\* LoginForm.handleSubmit after a successful await on POST login:
\* localStorage.setItem, onLogin() (App.handleLogin), finally setLoading(false).
LoginOkNoStore(i) ==
    /\ net[i].endpoint = "login" /\ net[i].stage = "answered"
    /\ Commit(token, TRUE, activeSection, selectedProjectId, rootHook,
              [login EXCEPT !.loading = FALSE], pv, cv, RemoveAt(net, i),
              <<ResolvedOk(net[i]), Event("setAuth", NoReq, Null, "", NoFail)>>)

LoginOk(i) ==
    /\ net[i].endpoint = "login" /\ net[i].stage = "answered"
    /\ Commit(net[i].resp.token, TRUE, activeSection, selectedProjectId, rootHook,
              [login EXCEPT !.loading = FALSE], pv, cv, RemoveAt(net, i),
              <<ResolvedOk(net[i]),
                Event("setItem", NoReq, net[i].resp.token, "", NoFail),
                Event("setAuth", NoReq, Null, "", NoFail)>>)

\* ... after a successful await on POST register: alert, setIsSignUp(false),
\* finally setLoading(false).
RegisterOk(i) ==
    /\ net[i].endpoint = "register" /\ net[i].stage = "answered"
    /\ Local(IF net[i].live THEN [login EXCEPT !.isSignUp = FALSE, !.loading = FALSE]
             ELSE login,
             pv, cv, RemoveAt(net, i),
             <<ResolvedOk(net[i]), Alert("Registration successful! Please log in.")>>)

\* ... after a failed await: setError, finally setLoading(false).
AuthFail(i, f) ==
    /\ net[i].endpoint \in {"login", "register"}
    /\ Local(IF net[i].live
             THEN [login EXCEPT !.error = IF f.error # "" THEN f.error
                                          ELSE "An unexpected error occurred.",
                                !.loading = FALSE]
             ELSE login,
             pv, cv, RemoveAt(net, i), <<ResolvedFail(net[i], f)>>)

\* -------------------------------------------------------------- Sidebar
\* An onSectionChange that would leave the selection alone.
NavigateKeepSelection(section) ==
    /\ isAuthenticated
    /\ Commit(token, isAuthenticated, section, selectedProjectId, rootHook, login, pv, cv,
              net, << >>)

\* onSectionChange: setActiveSection(section), setSelectedProjectId(null).
Navigate(section) ==
    /\ isAuthenticated
    /\ Commit(token, isAuthenticated, section, NullId, rootHook, login, pv, cv, net, << >>)

\* App.handleLogout
LogoutKeepToken ==
    /\ isAuthenticated
    /\ Commit(token, FALSE, activeSection, NullId, rootHook, login, pv, cv, net, << >>)

Logout ==
    /\ isAuthenticated
    /\ Commit(Null, FALSE, activeSection, NullId, rootHook, login, pv, cv, net,
              <<Event("removeItem", NoReq, Null, "", NoFail)>>)

\* ------------------------------------------------------------ fetch hook
\* The hook's setters act on the hook of the component that called useData:
\* App's always, a CrudView's while that CrudView is mounted.
FetchResolved(i, rh, ch, ev) ==
    Commit(token, isAuthenticated, activeSection, selectedProjectId,
           IF net[i].owner = "App" THEN rh ELSE rootHook,
           login, pv,
           IF net[i].owner = "CrudView" /\ net[i].live THEN [cv EXCEPT !.hook = ch] ELSE cv,
           RemoveAt(net, i), ev)

\* fetchData after a successful await on api.get(endpoint)
FetchOkStep(i) ==
    /\ net[i].method = "GET" /\ net[i].stage = "answered"
    /\ FetchResolved(i, FetchOk(rootHook, net[i].resp.data),
                     FetchOk(cv.hook, net[i].resp.data), <<ResolvedOk(net[i])>>)

\* fetchData after a failed await
FetchFailStep(i, f) ==
    /\ net[i].method = "GET"
    /\ FetchResolved(i, FetchFailed(rootHook, f, net[i].endpoint),
                     FetchFailed(cv.hook, f, net[i].endpoint), <<ResolvedFail(net[i], f)>>)

\* --------------------------------------------------------- ProjectsView
\* The list, its buttons and the form are rendered only past the two early
\* returns on loading and error.
PvShown == Mounted = "ProjectsView" /\ PanelBody(rootHook).kind = "list"

\* onSelectProject(project.id): App's setSelectedProjectId
SelectProject(k) ==
    /\ PvShown
    /\ k \in Ids(rootHook.data)
    /\ Commit(token, isAuthenticated, activeSection, k, rootHook, login, pv, cv, net, << >>)

\* ProjectDetailView's onBack: setSelectedProjectId(null)
Back ==
    /\ Mounted = "ProjectDetailView"
    /\ Commit(token, isAuthenticated, activeSection, NullId, rootHook, login, pv, cv,
              net, << >>)

\* onChange of the search input
PvSearch(q) ==
    /\ PvShown
    /\ Local(login, [pv EXCEPT !.searchTerm = q], cv, net, << >>)

\* onChange of the status select
PvSetFilter(status) ==
    /\ PvShown
    /\ Local(login, [pv EXCEPT !.filterStatus = status], cv, net, << >>)

\* ProjectsView.openForm(): "New Project"
PvOpenCreate ==
    /\ PvShown
    /\ Local(login, [pv EXCEPT !.showForm = TRUE, !.editing = << >>, !.form = BlankForm],
             cv, net, << >>)

\* ProjectsView.openForm(project): "Edit" on a listed project
PvOpenEdit(k) ==
    /\ PvShown
    /\ \E n \in DOMAIN rootHook.data :
        /\ rootHook.data[n].id = k
        /\ Local(login,
                 [pv EXCEPT !.showForm = TRUE, !.editing = <<rootHook.data[n]>>,
                            !.form = [val |-> rootHook.data[n].val, pid |-> NullId]],
                 cv, net, << >>)

\* "Cancel": setShowForm(false)
PvCancel ==
    /\ PvShown /\ pv.showForm
    /\ Local(login, [pv EXCEPT !.showForm = FALSE], cv, net, << >>)

\* onChange of the name input
PvType(v) ==
    /\ PvShown /\ pv.showForm
    /\ Local(login, [pv EXCEPT !.form.val = v], cv, net, << >>)

\* ProjectsView.handleFormSubmit up to its await; the name input is required.
PvSubmit ==
    /\ PvShown /\ pv.showForm
    /\ pv.form.val # ""
    /\ LET req == IF pv.editing # << >>
                  THEN Request("PUT", "projects", "ProjectsView", Bearer(token),
                               pv.editing[1].id, pv.form)
                  ELSE Request("POST", "projects", "ProjectsView", Bearer(token),
                               NullId, pv.form)
       IN  Local(login, pv, cv, Append(net, req), <<Dispatched(req)>>)

\* ProjectsView.handleDeleteProject up to its await
PvDelete(k, answer) ==
    /\ PvShown
    /\ k \in Ids(rootHook.data)
    /\ LET req == Request("DELETE", "projects", "ProjectsView", Bearer(token), k, BlankForm)
       IN  IF answer
           THEN Local(login, pv, cv, Append(net, req), <<Confirm(answer), Dispatched(req)>>)
           ELSE Local(login, pv, cv, net, <<Confirm(answer)>>)

\* setProjects is App's setter: it acts whether or not the ProjectsView that
\* awaited is still mounted; setShowForm is the ProjectsView's own.
PvResolved(i, data, close, ev) ==
    Commit(token, isAuthenticated, activeSection, selectedProjectId,
           [rootHook EXCEPT !.data = data], login,
           IF close /\ net[i].live THEN [pv EXCEPT !.showForm = FALSE] ELSE pv,
           cv, RemoveAt(net, i), ev)

\* handleFormSubmit after a successful await
PvSaveOk(i) ==
    /\ net[i].owner = "ProjectsView" /\ net[i].method \in {"POST", "PUT"}
    /\ net[i].stage = "answered"
    /\ PvResolved(i,
                  ApplySaved(rootHook.data, net[i].method, net[i].itemId, net[i].resp.data[1]),
                  TRUE, <<ResolvedOk(net[i])>>)

\* handleDeleteProject after a successful await
PvDeleteOk(i) ==
    /\ net[i].owner = "ProjectsView" /\ net[i].method = "DELETE"
    /\ net[i].stage = "answered"
    /\ PvResolved(i, FilterOutId(rootHook.data, net[i].itemId), FALSE,
                  <<ResolvedOk(net[i])>>)

\* the catch block of either handler
PvFail(i, f) ==
    /\ net[i].owner = "ProjectsView"
    /\ PvResolved(i, rootHook.data, FALSE,
                  <<ResolvedFail(net[i], f),
                    Alert(IF net[i].method = "DELETE"
                          THEN "Error: Could not delete the project."
                          ELSE "Error: Could not save the project.")>>)

\* ------------------------------------------------------------- CrudView
CvShown == Mounted = "CrudView" /\ PanelBody(cv.hook).kind = "list"

\* CrudView.openForm(): "New ..."
CvOpenCreate ==
    /\ CvShown
    /\ Local(login, pv, [cv EXCEPT !.showForm = TRUE, !.editing = << >>, !.form = BlankForm],
             net, << >>)

\* CrudView.openForm(item): "Edit" on a listed item
CvOpenEdit(k) ==
    /\ CvShown
    /\ \E n \in DOMAIN cv.hook.data :
        /\ cv.hook.data[n].id = k
        /\ Local(login, pv,
                 [cv EXCEPT !.showForm = TRUE, !.editing = <<cv.hook.data[n]>>,
                            !.form = FormOf(cv.hook.data[n])],
                 net, << >>)

CvCancel ==
    /\ CvShown /\ cv.showForm
    /\ Local(login, pv, [cv EXCEPT !.showForm = FALSE], net, << >>)

\* onChange of the name/title input
CvType(v) ==
    /\ CvShown /\ cv.showForm
    /\ Local(login, pv, [cv EXCEPT !.form.val = v], net, << >>)

\* onChange of the project selector: its options are App's projects
CvPickProject(k) ==
    /\ CvShown /\ cv.showForm
    /\ k \in Ids(rootHook.data)
    /\ Local(login, pv, [cv EXCEPT !.form.pid = k], net, << >>)

\* CrudView.handleSubmit up to its await; the inputs and the selector are
\* required, and a selector whose value is none of its options shows "".
CvSubmit ==
    /\ CvShown /\ cv.showForm
    /\ cv.form.val # ""
    /\ cv.form.pid \in Ids(rootHook.data)
    /\ LET ep == EndpointOf(activeSection)
           req == IF cv.editing # << >>
                  THEN Request("PUT", ep, "CrudView", Bearer(token), cv.editing[1].id, cv.form)
                  ELSE Request("POST", ep, "CrudView", Bearer(token), NullId, cv.form)
       IN  Local(login, pv, cv, Append(net, req), <<Dispatched(req)>>)

\* A handleDelete that would send the request whatever the confirmation says.
CvDeleteNoConfirm(k, answer) ==
    /\ CvShown
    /\ k \in Ids(cv.hook.data)
    /\ LET req == Request("DELETE", EndpointOf(activeSection), "CrudView", Bearer(token),
                          k, BlankForm)
       IN  Local(login, pv, cv, Append(net, req), <<Confirm(answer), Dispatched(req)>>)

\* CrudView.handleDelete up to its await
CvDelete(k, answer) ==
    /\ CvShown
    /\ k \in Ids(cv.hook.data)
    /\ LET req == Request("DELETE", EndpointOf(activeSection), "CrudView", Bearer(token),
                          k, BlankForm)
       IN  IF answer
           THEN Local(login, pv, cv, Append(net, req), <<Confirm(answer), Dispatched(req)>>)
           ELSE Local(login, pv, cv, net, <<Confirm(answer)>>)

\* setData and setShowForm are the CrudView's own: they act only while the
\* CrudView that awaited is mounted.
CvResolved(i, data, close, ev) ==
    Local(login, pv,
          IF net[i].live
          THEN [cv EXCEPT !.hook.data = data,
                          !.showForm = IF close THEN FALSE ELSE cv.showForm]
          ELSE cv,
          RemoveAt(net, i), ev)

\* A handleSubmit that would refuse an update whose item changed in the
\* collection since the form was opened on it.
CvSaveOkDetectsConflict(i) ==
    /\ net[i].owner = "CrudView" /\ net[i].method \in {"POST", "PUT"}
    /\ net[i].stage = "answered"
    /\ IF net[i].method = "PUT" /\ Find(cv.hook.data, net[i].itemId) # cv.editing
       THEN CvResolved(i, cv.hook.data, FALSE,
                       <<ResolvedOk(net[i]), Alert("Error: The item was changed.")>>)
       ELSE CvResolved(i,
                       ApplySaved(cv.hook.data, net[i].method, net[i].itemId,
                                  net[i].resp.data[1]),
                       TRUE, <<ResolvedOk(net[i])>>)

\* handleSubmit after a successful await
CvSaveOk(i) ==
    /\ net[i].owner = "CrudView" /\ net[i].method \in {"POST", "PUT"}
    /\ net[i].stage = "answered"
    /\ CvResolved(i,
                  ApplySaved(cv.hook.data, net[i].method, net[i].itemId, net[i].resp.data[1]),
                  TRUE, <<ResolvedOk(net[i])>>)

\* handleDelete after a successful await
CvDeleteOk(i) ==
    /\ net[i].owner = "CrudView" /\ net[i].method = "DELETE"
    /\ net[i].stage = "answered"
    /\ CvResolved(i, FilterOutId(cv.hook.data, net[i].itemId), FALSE, <<ResolvedOk(net[i])>>)

\* A catch block that would close the form as the success path does.
CvFailClosesForm(i, f) ==
    /\ net[i].owner = "CrudView" /\ net[i].method # "GET"
    /\ CvResolved(i, cv.hook.data, TRUE,
                  <<ResolvedFail(net[i], f),
                    Alert("Error: Could not "
                          \o (IF net[i].method = "DELETE" THEN "delete" ELSE "save")
                          \o " the " \o Singular(net[i].endpoint) \o ".")>>)

\* the catch block of either handler
CvFail(i, f) ==
    /\ net[i].owner = "CrudView" /\ net[i].method # "GET"
    /\ CvResolved(i, cv.hook.data, FALSE,
                  <<ResolvedFail(net[i], f),
                    Alert("Error: Could not "
                          \o (IF net[i].method = "DELETE" THEN "delete" ELSE "save")
                          \o " the " \o Singular(net[i].endpoint) \o ".")>>)

\* --------------------------------------------------------------- server
\* The REST backend: it answers a request once, with the persisted row (create,
\* update), the collection (GET) or an access token (login). A request it
\* rejects, or whose answer is lost, fails at the client instead.
\* A project as GET projects returns it: with its nested collections.
ProjectRow(p, tables) ==
    [id |-> p.id, val |-> p.val,
     subs |-> [e \in CrudEndpoints |-> FilterByPid(tables[e], p.id)]]

Answer(i, resp, tables, next) ==
    /\ net' = [net EXCEPT ![i].stage = "answered", ![i].resp = resp]
    /\ srv' = tables
    /\ srvNext' = next
    /\ emitted' = << >>
    /\ UNCHANGED <<token, isAuthenticated, activeSection, selectedProjectId, rootHook,
                   login, pv, cv, charts>>

SrvLogin(i, tok) ==
    /\ net[i].stage = "sent" /\ net[i].endpoint = "login"
    /\ Answer(i, [data |-> << >>, token |-> tok], srv, srvNext)

SrvRegister(i) ==
    /\ net[i].stage = "sent" /\ net[i].endpoint = "register"
    /\ Answer(i, NoResp, srv, srvNext)

SrvGet(i) ==
    /\ net[i].stage = "sent" /\ net[i].method = "GET"
    /\ net[i].bearer \in Tokens
    /\ Answer(i,
              [data |-> IF net[i].endpoint = "projects"
                        THEN [n \in DOMAIN srv.projects |-> ProjectRow(srv.projects[n], srv)]
                        ELSE srv[net[i].endpoint],
               token |-> Null],
              srv, srvNext)

SrvCreate(i) ==
    LET t == net[i].endpoint
        b == net[i].body
    IN  /\ net[i].stage = "sent" /\ net[i].method = "POST" /\ t \in Tables
        /\ net[i].bearer \in Tokens
        /\ srvNext[t] <= MaxId
        /\ t # "projects" => b.pid \in Ids(srv.projects)
        /\ LET row == IF t = "projects"
                      THEN [id |-> srvNext[t], val |-> b.val]
                      ELSE [id |-> srvNext[t], val |-> b.val, pid |-> b.pid, res |-> t]
               tables == [srv EXCEPT ![t] = Append(@, row)]
           IN  Answer(i,
                      [data |-> <<IF t = "projects" THEN ProjectRow(row, tables) ELSE row>>,
                       token |-> Null],
                      tables, [srvNext EXCEPT ![t] = @ + 1])

SrvUpdate(i) ==
    LET t == net[i].endpoint
        b == net[i].body
        k == net[i].itemId
    IN  /\ net[i].stage = "sent" /\ net[i].method = "PUT"
        /\ net[i].bearer \in Tokens
        /\ k \in Ids(srv[t])
        /\ t # "projects" => b.pid \in Ids(srv.projects)
        /\ LET row == IF t = "projects"
                      THEN [id |-> k, val |-> b.val]
                      ELSE [id |-> k, val |-> b.val, pid |-> b.pid, res |-> t]
               tables == [srv EXCEPT ![t] = MapById(@, k, row)]
           IN  Answer(i,
                      [data |-> <<IF t = "projects" THEN ProjectRow(row, tables) ELSE row>>,
                       token |-> Null],
                      tables, srvNext)

\* Deleting a project deletes what belongs to it: every sub-resource's
\* project_id references an existing project.
SrvDelete(i) ==
    LET t == net[i].endpoint
        k == net[i].itemId
    IN  /\ net[i].stage = "sent" /\ net[i].method = "DELETE"
        /\ net[i].bearer \in Tokens
        /\ k \in Ids(srv[t])
        /\ Answer(i, NoResp,
                  IF t = "projects"
                  THEN [e \in Tables |->
                          IF e = "projects" THEN FilterOutId(srv[e], k)
                          ELSE FilterOutPid(srv[e], k)]
                  ELSE [srv EXCEPT ![t] = FilterOutId(@, k)],
                  srvNext)

\* ----------------------------------------------------------------- Next
Next ==
    \/ ToggleMode
    \/ SubmitAuth
    \/ \E i \in DOMAIN net : LoginOk(i)
    \/ \E i \in DOMAIN net : RegisterOk(i)
    \/ \E i \in DOMAIN net, f \in WriteFailures : AuthFail(i, f)
    \/ \E section \in Sections : Navigate(section)
    \/ Logout
    \/ \E i \in DOMAIN net : FetchOkStep(i)
    \/ \E i \in DOMAIN net, f \in Failures : FetchFailStep(i, f)
    \/ \E k \in 1..MaxId : SelectProject(k)
    \/ Back
    \/ PvOpenCreate
    \/ \E k \in 1..MaxId : PvOpenEdit(k)
    \/ PvCancel
    \/ \E v \in Vals : PvType(v)
    \/ PvSubmit
    \/ \E k \in 1..MaxId, answer \in BOOLEAN : PvDelete(k, answer)
    \/ \E i \in DOMAIN net : PvSaveOk(i)
    \/ \E i \in DOMAIN net : PvDeleteOk(i)
    \/ \E i \in DOMAIN net, f \in WriteFailures : PvFail(i, f)
    \/ CvOpenCreate
    \/ \E k \in 1..MaxId : CvOpenEdit(k)
    \/ CvCancel
    \/ \E v \in Vals : CvType(v)
    \/ \E k \in 1..MaxId : CvPickProject(k)
    \/ CvSubmit
    \/ \E k \in 1..MaxId, answer \in BOOLEAN : CvDelete(k, answer)
    \/ \E i \in DOMAIN net : CvSaveOk(i)
    \/ \E i \in DOMAIN net : CvDeleteOk(i)
    \/ \E i \in DOMAIN net, f \in WriteFailures : CvFail(i, f)
    \/ \E i \in DOMAIN net, tok \in Tokens : SrvLogin(i, tok)
    \/ \E i \in DOMAIN net : SrvRegister(i)
    \/ \E i \in DOMAIN net : SrvGet(i)
    \/ \E i \in DOMAIN net : SrvCreate(i)
    \/ \E i \in DOMAIN net : SrvUpdate(i)
    \/ \E i \in DOMAIN net : SrvDelete(i)

Spec == Init /\ [][Next]_vars

\* ------------------------------------------------- checked specifications
\* Spec's reachable states within the bounds are more than TLC enumerates in
\* minutes, so the properties below are checked on restrictions of it,
\* each keeping every variable, Init and the actions as they are.
\*
\* SpecSession: the session and routing: sign-up, sign-in, logout, the
\* sidebar, the fetch hooks of App and of the Documents panel, project
\* selection, and the deletion of projects (a write through App's setter).
NextSession ==
    \/ ToggleMode
    \/ SubmitAuth
    \/ \E i \in DOMAIN net : LoginOk(i)
    \/ \E i \in DOMAIN net : RegisterOk(i)
    \/ \E i \in DOMAIN net, f \in WriteFailures : AuthFail(i, f)
    \/ \E section \in {"dashboard", "projects", "documents"} : Navigate(section)
    \/ Logout
    \/ \E i \in DOMAIN net : FetchOkStep(i)
    \/ \E i \in DOMAIN net, f \in Failures : FetchFailStep(i, f)
    \/ \E k \in 1..MaxId : SelectProject(k)
    \/ Back
    \/ \E k \in 1..MaxId, answer \in BOOLEAN : PvDelete(k, answer)
    \/ \E i \in DOMAIN net : PvDeleteOk(i)
    \/ \E i \in DOMAIN net, f \in WriteFailures : PvFail(i, f)
    \/ \E i \in DOMAIN net, tok \in Tokens : SrvLogin(i, tok)
    \/ \E i \in DOMAIN net : SrvRegister(i)
    \/ \E i \in DOMAIN net : SrvGet(i)
    \/ \E i \in DOMAIN net : SrvDelete(i)

SpecSession == Init /\ [][NextSession]_vars

\* SpecCrud: a signed-in user who opens one panel from the dashboard while the
\* projects are loading, the Projects panel or the Documents panel, and works
\* in it: every form and list action of both panels, with their requests
\* racing in every order.
OneFailure == {[status |-> 500, error |-> ""]}

OpenPanel(section) ==
    /\ activeSection = "dashboard"
    /\ rootHook.loading
    /\ Navigate(section)

NextCrud ==
    \/ \E section \in {"projects", "documents"} : OpenPanel(section)
    \/ \E i \in DOMAIN net : FetchOkStep(i)
    \/ \E i \in DOMAIN net, f \in OneFailure : FetchFailStep(i, f)
    \/ PvOpenCreate
    \/ \E k \in 1..MaxId : PvOpenEdit(k)
    \/ PvCancel
    \/ \E v \in Vals : PvType(v)
    \/ PvSubmit
    \/ \E k \in 1..MaxId, answer \in BOOLEAN : PvDelete(k, answer)
    \/ \E i \in DOMAIN net : PvSaveOk(i)
    \/ \E i \in DOMAIN net : PvDeleteOk(i)
    \/ \E i \in DOMAIN net, f \in OneFailure : PvFail(i, f)
    \/ CvOpenCreate
    \/ \E k \in 1..MaxId : CvOpenEdit(k)
    \/ CvCancel
    \/ \E v \in Vals : CvType(v)
    \/ \E k \in 1..MaxId : CvPickProject(k)
    \/ CvSubmit
    \/ \E k \in 1..MaxId, answer \in BOOLEAN : CvDelete(k, answer)
    \/ \E i \in DOMAIN net : CvSaveOk(i)
    \/ \E i \in DOMAIN net : CvDeleteOk(i)
    \/ \E i \in DOMAIN net, f \in OneFailure : CvFail(i, f)
    \/ \E i \in DOMAIN net : SrvGet(i)
    \/ \E i \in DOMAIN net : SrvCreate(i)
    \/ \E i \in DOMAIN net : SrvUpdate(i)
    \/ \E i \in DOMAIN net : SrvDelete(i)

\* A page load with a token in localStorage.
InitSignedIn == Init /\ token = "T1"

SpecCrud == InitSignedIn /\ [][NextCrud]_vars

\* SpecSelect: a signed-in user on the dashboard and the Projects panel, with
\* a server that numbered its first project 0 or 1: selecting, going back,
\* creating and deleting projects, and signing out.
ZeroProject == [id |-> 0, val |-> "a"]

InitSelect ==
    \E p \in {ZeroProject, InitialProject} :
        InitWith("T1", p, [InitialDocument EXCEPT !.pid = p.id])

NextSelect ==
    \/ \E section \in {"dashboard", "projects"} : Navigate(section)
    \/ Logout
    \/ \E i \in DOMAIN net : FetchOkStep(i)
    \/ \E i \in DOMAIN net, f \in OneFailure : FetchFailStep(i, f)
    \/ \E k \in 0..MaxId : SelectProject(k)
    \/ Back
    \/ PvOpenCreate
    \/ \E v \in Vals : PvType(v)
    \/ PvSubmit
    \/ \E k \in 0..MaxId, answer \in BOOLEAN : PvDelete(k, answer)
    \/ \E i \in DOMAIN net : PvSaveOk(i)
    \/ \E i \in DOMAIN net : PvDeleteOk(i)
    \/ \E i \in DOMAIN net, f \in OneFailure : PvFail(i, f)
    \/ \E i \in DOMAIN net : SrvGet(i)
    \/ \E i \in DOMAIN net : SrvCreate(i)
    \/ \E i \in DOMAIN net : SrvDelete(i)

SpecSelect == InitSelect /\ [][NextSelect]_vars

\* SpecFilter: the Projects panel showing a loaded collection of up to
\* MaxProjects projects with names, locations and statuses, and a user who
\* types in the search box and picks a status.
MaxProjects == 2

Names == {<<"A", "b">>, <<"b">>}
Locations == {<< >>, <<<< >>>>, <<<<"a", "B">>>>}
Statuses == {"planning", "active"}
SearchTerms == {<< >>, <<"a">>, <<"B">>, <<"a", "b">>}
StatusOptions == {"all", "planning", "active", "completed"}

FilterCollections ==
    UNION {[1..n -> [name : Names, location : Locations, status : Statuses]] :
           n \in 0..MaxProjects}

InitFilter ==
    \E C \in FilterCollections :
        LET rows == [n \in DOMAIN C |->
                        [id |-> n, name |-> C[n].name, location |-> C[n].location,
                         status |-> C[n].status]]
        IN  /\ token = "T1"
            /\ isAuthenticated = TRUE
            /\ activeSection = "projects"
            /\ selectedProjectId = NullId
            /\ rootHook = [data |-> rows, loading |-> FALSE, error |-> Null,
                           dep |-> "projects"]
            /\ login = LoginInit
            /\ pv = PvInit
            /\ cv = CvInit
            /\ net = << >>
            /\ srv = [t \in Tables |-> IF t = "projects" THEN rows ELSE << >>]
            /\ srvNext = [t \in Tables |-> IF t = "projects" THEN Len(rows) + 1 ELSE 1]
            /\ charts = ChartsInit
            /\ emitted = << >>

NextFilter ==
    \/ \E q \in SearchTerms : PvSearch(q)
    \/ \E status \in StatusOptions : PvSetFilter(status)

SpecFilter == InitFilter /\ [][NextFilter]_vars

\* SpecRace: a signed-in user who opens the Projects or the Documents panel
\* and edits an item, typing one of two texts and submitting more than once
\* before the responses arrive; the server and the responses in every order.
RaceVals == {"b", "c"}

NextRace ==
    \/ \E section \in {"projects", "documents"} : OpenPanel(section)
    \/ \E i \in DOMAIN net : FetchOkStep(i)
    \/ \E k \in 1..MaxId : PvOpenEdit(k)
    \/ \E v \in RaceVals : PvType(v)
    \/ PvSubmit
    \/ \E i \in DOMAIN net : PvSaveOk(i)
    \/ \E k \in 1..MaxId : CvOpenEdit(k)
    \/ \E v \in RaceVals : CvType(v)
    \/ CvSubmit
    \/ \E i \in DOMAIN net : CvSaveOk(i)
    \/ \E i \in DOMAIN net : SrvGet(i)
    \/ \E i \in DOMAIN net : SrvUpdate(i)

SpecRace == InitSignedIn /\ [][NextRace]_vars

\* SpecRebind: a signed-in user who moves between the Documents and the
\* Preconstruction (bids) sections, both rendered by the one CrudView, and
\* edits items there, with every order of the responses.
Rebind(section) ==
    /\ activeSection \in CrudSections
    /\ Navigate(section)

NextRebind ==
    \/ \E section \in {"documents", "preconstruction"} : OpenPanel(section)
    \/ \E section \in {"documents", "preconstruction"} : Rebind(section)
    \/ \E i \in DOMAIN net : FetchOkStep(i)
    \/ \E i \in DOMAIN net, f \in OneFailure : FetchFailStep(i, f)
    \/ \E k \in 1..MaxId : CvOpenEdit(k)
    \/ \E v \in Vals : CvType(v)
    \/ CvSubmit
    \/ \E i \in DOMAIN net : CvSaveOk(i)
    \/ \E i \in DOMAIN net, f \in OneFailure : CvFail(i, f)
    \/ \E i \in DOMAIN net : SrvGet(i)
    \/ \E i \in DOMAIN net : SrvUpdate(i)

SpecRebind == InitSignedIn /\ [][NextRebind]_vars

\* ------------------------------------------------------------ properties
\* The first effect of the last step, when that step was the return of an
\* await: which request returned, and how.
AwaitReturned == emitted # << >> /\ emitted[1].ev = "resolve"
Returned == emitted[1].req
ReturnedOk == AwaitReturned /\ emitted[1].msg = "ok"
ReturnedFail == AwaitReturned /\ emitted[1].msg = "fail"

IsDispatch(e, method, endpoint) ==
    e.ev = "dispatch" /\ e.req.method = method /\ e.req.endpoint = endpoint

\* A write of a panel whose setters still act: the Projects panel's (App's
\* setter) or a mounted CRUD panel's.
PanelWrite(r) ==
    /\ r.method \in {"POST", "PUT", "DELETE"}
    /\ r.owner = "ProjectsView" \/ (r.owner = "CrudView" /\ r.live)

\* C1: in every state where the authenticated flag is false the page is the
\* Login panel and nothing else, whatever the active section and the selected
\* project id are, and the step that led there dispatched no GET projects.
C1_UnauthenticatedShowsLogin ==
    ~isAuthenticated =>
        /\ View.panel = "LoginForm"
        /\ View.items = << >>
        /\ \A n \in DOMAIN emitted : ~IsDispatch(emitted[n], "GET", "projects")

C1_Witness ==
    /\ ~isAuthenticated
    /\ activeSection = "projects"
    /\ rootHook.data # << >>

\* C2: the authenticated flag is true exactly when a token is in
\* localStorage; the token changes to a new value only when a sign-in returns
\* successfully (to the token of that response), it is removed only by
\* logout, and a sign-up or a failed request changes neither token nor flag.
C2_TokenStep ==
    /\ (token' # token /\ token' # Null) =>
          /\ ReturnedOk' /\ Returned'.endpoint = "login"
          /\ token' = Returned'.resp.token
    /\ (token' # token /\ token' = Null) =>
          emitted'[1].ev = "removeItem" /\ ~isAuthenticated'
    /\ (ReturnedFail' \/ (ReturnedOk' /\ Returned'.endpoint = "register")) =>
          UNCHANGED <<token, isAuthenticated>>

C2_FlagIffToken ==
    /\ [](isAuthenticated <=> token # Null)
    /\ [][C2_TokenStep]_vars

C2_Witness ==
    /\ ReturnedOk /\ Returned.endpoint = "login"
    /\ isAuthenticated /\ token = "T2"
    /\ rootHook.data # << >>

\* C3: when a sign-in returns access_token T, the handler stores T, then sets
\* the authenticated flag, and then exactly one GET projects is dispatched,
\* carrying T as its bearer credential; when the active section is the
\* dashboard (as it is from an unauthenticated load on) the dashboard is shown.
C3_SignInOrder ==
    (ReturnedOk /\ Returned.endpoint = "login") =>
        LET T == Returned.resp.token
            gets == {n \in DOMAIN emitted : IsDispatch(emitted[n], "GET", "projects")}
        IN  /\ token = T
            /\ isAuthenticated
            /\ Len(emitted) >= 4
            /\ emitted[2].ev = "setItem" /\ emitted[2].tok = T
            /\ emitted[3].ev = "setAuth"
            /\ Cardinality(gets) = 1
            /\ \A n \in gets : n > 3 /\ emitted[n].req.bearer = T
            /\ activeSection = "dashboard" => View.panel = "DashboardView"

C3_Witness ==
    /\ ReturnedOk /\ Returned.endpoint = "login"
    /\ activeSection = "dashboard"
    /\ token = "T2"
    /\ Len(net) = 1 /\ net[1].bearer = "T2"

\* C7: a step dispatches a GET for a hook only when that hook's identifier
\* takes a new non-empty value in that step (its first value included), and
\* then one GET: a render with the identifier unchanged, after navigation,
\* selection or a write through the setter, dispatches none.
C7_FetchOnlyOnIdentifierChange ==
    [][/\ \A n \in DOMAIN emitted' :
            (emitted'[n].ev = "dispatch" /\ emitted'[n].req.method = "GET") =>
                LET r == emitted'[n].req
                IN  /\ TruthyStr(r.endpoint)
                    /\ r.owner = "App" =>
                          rootHook.dep # r.endpoint /\ rootHook'.dep = r.endpoint
                    /\ r.owner = "CrudView" =>
                          cv.hook.dep # r.endpoint /\ cv'.hook.dep = r.endpoint
                    /\ \A m \in DOMAIN emitted' :
                          (emitted'[m].ev = "dispatch" /\ emitted'[m].req.method = "GET"
                           /\ emitted'[m].req.owner = r.owner) => m = n]_vars

C7_Witness ==
    /\ ReturnedOk /\ Returned.method = "DELETE" /\ Returned.owner = "ProjectsView"
    /\ Len(emitted) = 1
    /\ rootHook.dep = "projects" /\ rootHook.data = << >>
    /\ selectedProjectId = NullId

\* C8: whenever App's hook is called with no identifier (the flag is false)
\* it reports loading = false, no error and an empty collection, and the step
\* dispatched no GET for it.
C8_NoIdentifierReportsEmpty ==
    ~isAuthenticated =>
        /\ rootHook.loading = FALSE
        /\ rootHook.error = Null
        /\ rootHook.data = << >>
        /\ \A n \in DOMAIN emitted :
              ~(emitted[n].ev = "dispatch" /\ emitted[n].req.owner = "App")

\* The message the claim C9 gives for a failure f of a fetch of `endpoint`.
C9_Message(f, endpoint) ==
    CASE f.status = 401 -> "Authentication failed. Your session may have expired."
      [] f.status = 422 -> "Invalid request format for " \o endpoint \o "."
      [] f.error # "" -> "Failed to fetch " \o endpoint \o ". " \o f.error
      [] OTHER -> "Failed to fetch " \o endpoint \o ". Please try again."

\* C9: after a fetch failed, the hook's error is the message for the status
\* and the server's error string, and the Projects and Dashboard panels show
\* that message and no project.
C9_FetchErrorMessages ==
    (ReturnedFail /\ Returned.method = "GET") =>
        /\ Returned.owner = "App" =>
              /\ rootHook.error = C9_Message(emitted[1].fail, Returned.endpoint)
              /\ View.panel \in {"ProjectsView", "DashboardView"} =>
                    /\ View.kind = "error"
                    /\ View.message = C9_Message(emitted[1].fail, "projects")
                    /\ View.items = << >>
        /\ (Returned.owner = "CrudView" /\ Returned.live) =>
              cv.hook.error = C9_Message(emitted[1].fail, Returned.endpoint)

C9_Witness ==
    /\ ReturnedFail /\ Returned.method = "GET" /\ Returned.owner = "App"
    /\ emitted[1].fail.status = 401
    /\ View.panel = "ProjectsView"
    /\ View.message = "Authentication failed. Your session may have expired."
    /\ rootHook.data # << >>

\* C4: when a create returns row R, the panel's collection becomes R followed
\* by the collection as it was when the response resolved; when an update of
\* item X returns R', every element whose id is X.id becomes R' where it stood
\* and nothing else changes: same length, same order, nothing appended.
C4_SaveStep ==
    (ReturnedOk' /\ PanelWrite(Returned') /\ Returned'.method \in {"POST", "PUT"}) =>
        LET r == Returned'
            R == r.resp.data[1]
            L == IF r.owner = "ProjectsView" THEN rootHook.data ELSE cv.hook.data
            L2 == IF r.owner = "ProjectsView" THEN rootHook'.data ELSE cv'.hook.data
        IN  /\ r.method = "POST" =>
                  /\ Len(L2) = Len(L) + 1
                  /\ L2[1] = R
                  /\ \A n \in DOMAIN L : L2[n + 1] = L[n]
            /\ r.method = "PUT" =>
                  /\ Len(L2) = Len(L)
                  /\ \A n \in DOMAIN L : L2[n] = IF L[n].id = r.itemId THEN R ELSE L[n]

C4_SaveRoundTrip == [][C4_SaveStep]_vars

C4_Witness ==
    /\ ReturnedOk /\ Returned.method = "PUT" /\ Returned.owner = "CrudView"
    /\ Len(cv.hook.data) = 2
    /\ cv.hook.data[1].id = 2
    /\ cv.hook.data[2] = Returned.resp.data[1]
    /\ cv.hook.data[2].id = 1 /\ cv.hook.data[2].val = "b"

\* C5: a DELETE is dispatched only right after the user answered yes to the
\* confirmation; a no dispatches nothing and changes no collection; when
\* the DELETE of id k returns successfully the collection is the previous one
\* without the elements of id k, the others in their order.
C5_DeleteStep ==
    /\ \A n \in DOMAIN emitted' :
          (emitted'[n].ev = "dispatch" /\ emitted'[n].req.method = "DELETE") =>
              n > 1 /\ emitted'[n - 1] = Confirm(TRUE)
    /\ (emitted' # << >> /\ emitted'[1] = Confirm(FALSE)) =>
          /\ net' = net
          /\ rootHook' = rootHook /\ cv' = cv /\ srv' = srv
    /\ (ReturnedOk' /\ PanelWrite(Returned') /\ Returned'.method = "DELETE") =>
          LET r == Returned'
              L == IF r.owner = "ProjectsView" THEN rootHook.data ELSE cv.hook.data
              L2 == IF r.owner = "ProjectsView" THEN rootHook'.data ELSE cv'.hook.data
          IN  L2 = SelectSeq(L, LAMBDA x : x.id # r.itemId)

C5_DeleteAfterConfirm == [][C5_DeleteStep]_vars

C5_Witness ==
    /\ ReturnedOk /\ Returned.method = "DELETE" /\ Returned.owner = "CrudView"
    /\ Returned.itemId = 1
    /\ Len(cv.hook.data) = 1 /\ cv.hook.data[1].id = 2

\* C6: when a create, update or delete fails, the step changes no collection,
\* no form (the form that issued the request, if open, stays open with its
\* values), neither the session, the active section nor the selected project
\* id, and raises one alert.
C6_FailStep ==
    (ReturnedFail' /\ PanelWrite(Returned')) =>
        /\ rootHook' = rootHook
        /\ cv' = cv
        /\ pv' = pv
        /\ UNCHANGED <<token, isAuthenticated, activeSection, selectedProjectId>>
        /\ Len(emitted') = 2 /\ emitted'[2].ev = "alert"

C6_FailureLeavesState == [][C6_FailStep]_vars

C6_Witness ==
    /\ ReturnedFail /\ Returned.method = "POST" /\ Returned.owner = "ProjectsView"
    /\ pv.showForm /\ pv.form.val = "b"
    /\ emitted[2] = Alert("Error: Could not save the project.")

\* What GET projects would return now.
SrvProjects == [n \in DOMAIN srv.projects |-> ProjectRow(srv.projects[n], srv)]

\* Two collections hold the same rows (in any order).
SameRows(a, b) ==
    /\ Len(a) = Len(b)
    /\ {a[n] : n \in DOMAIN a} = {b[n] : n \in DOMAIN b}

\* Project rows without the row of id k of table t, nested or not.
Without(projects, t, k) ==
    IF t = "projects" THEN FilterOutId(projects, k)
    ELSE [n \in DOMAIN projects |->
            [projects[n] EXCEPT !.subs = [e \in CrudEndpoints |->
                IF e = t THEN FilterOutId(projects[n].subs[e], k)
                ELSE projects[n].subs[e]]]]

\* Every collection the client holds equals the server's.
C10_Synced ==
    /\ SameRows(rootHook.data, SrvProjects)
    /\ Mounted = "CrudView" => SameRows(cv.hook.data, srv[cv.hook.dep])

\* ... but for the row the write r is about.
C10_SyncedBut(r) ==
    LET k == IF r.method = "POST" THEN r.resp.data[1].id ELSE r.itemId
    IN  /\ SameRows(Without(rootHook.data, r.endpoint, k),
                    Without(SrvProjects, r.endpoint, k))
        /\ Mounted = "CrudView" =>
              SameRows(FilterOutId(cv.hook.data, k), FilterOutId(srv[cv.hook.dep], k))

\* C10: when a create, update or delete returns successfully, nothing else is
\* in flight, and the client's collections equalled the server's but for the
\* written row, then after the step every collection the client holds equals
\* the server's: the panel's own and App's projects with their nested lists.
C10_WriteStep ==
    (ReturnedOk' /\ PanelWrite(Returned') /\ net' = << >> /\ C10_SyncedBut(Returned')) =>
        C10_Synced'

C10_ClientMatchesServer == [][C10_WriteStep]_vars

\* C11: View Details on a listed project, whatever id the server gave it (0
\* included), sets the selected project id to that id, and as long as that id
\* is selected and in the collection the main view is the Detail Panel of that
\* project, whatever the active section.
C11_Shown ==
    (isAuthenticated /\ selectedProjectId # NullId
        /\ selectedProjectId \in Ids(rootHook.data)) =>
        /\ View.panel = "ProjectDetailView"
        /\ View.items = Find(rootHook.data, selectedProjectId)

C11_SelectStep == \A k \in 0..MaxId : SelectProject(k) => selectedProjectId' = k

C11_ViewDetailsShowsDetail == [](C11_Shown) /\ [][C11_SelectStep]_vars

\* C12: right after every navigation (to any section, the active one included)
\* and right after every logout the selected project id is null, and it is null
\* in every unauthenticated state.
C12_ClearStep ==
    (\/ activeSection' # activeSection
     \/ isAuthenticated /\ ~isAuthenticated'
     \/ \E section \in Sections : Navigate(section)
     \/ Logout) =>
        selectedProjectId' = NullId

C13_PlaceholderWhenAbsent ==
    (isAuthenticated /\ selectedProjectId # NullId
        /\ selectedProjectId \notin Ids(rootHook.data)) =>
        /\ View.panel = "Placeholder"
        /\ View.message = "Loading project details..."

\* q occurs in str: str is some text, then q, then some text.
C14_Contains(str, q) ==
    \E a \in 0..Len(str) : \E b \in a..Len(str) : SubSeq(str, a + 1, b) = q

C14_Matches(p) ==
    /\ \/ C14_Contains(ToLowerCase(p.name), ToLowerCase(pv.searchTerm))
       \/ /\ p.location # << >>
          /\ C14_Contains(ToLowerCase(p.location[1]), ToLowerCase(pv.searchTerm))
    /\ pv.filterStatus = "all" \/ p.status = pv.filterStatus

\* C14: the Projects panel's filtered output is the subsequence of the
\* collection, in its order, of the projects whose lowercased name or present
\* location contains the lowercased search text and whose status is the
\* selected one (or the selection is "all").
C14_FilterIsSubsequence ==
    PvShown =>
        FilteredProjects(rootHook.data, pv.searchTerm, pv.filterStatus)
            = SelectSeq(rootHook.data, C14_Matches)

C14_Witness ==
    /\ PvShown /\ Len(rootHook.data) = 2
    /\ pv.searchTerm = <<"a", "b">> /\ pv.filterStatus = "active"
    /\ rootHook.data[1].name = <<"A", "b">> /\ rootHook.data[1].status = "planning"
    /\ rootHook.data[2].name = <<"b">> /\ rootHook.data[2].location = <<<<"a", "B">>>>
    /\ rootHook.data[2].status = "active"
    /\ FilteredProjects(rootHook.data, pv.searchTerm, pv.filterStatus) = <<rootHook.data[2]>>

\* C15: in every reachable state at most one bar chart instance and at most
\* one pie chart instance exist that were not destroyed: the dashboard never
\* creates a chart while an earlier one of the same kind is undestroyed.
C15_OneChartOfEachKind ==
    /\ charts.leakedBar + (IF charts.bar = "live" THEN 1 ELSE 0) <= 1
    /\ charts.leakedPie + (IF charts.pie = "live" THEN 1 ELSE 0) <= 1

\* C16: when a create, update or delete of a panel that has been unmounted
\* since it sent the request resolves, with success or failure, the step
\* changes neither App's project collection, nor the session, nor the
\* collection of the mounted panel.
C16_ResolveStep ==
    (AwaitReturned' /\ Returned'.method \in {"POST", "PUT", "DELETE"}
        /\ Returned'.owner \in {"ProjectsView", "CrudView"} /\ ~Returned'.live) =>
        /\ rootHook' = rootHook
        /\ cv'.hook = cv.hook
        /\ UNCHANGED <<token, isAuthenticated>>

C16_TornDownPanelChangesNothing == [][C16_ResolveStep]_vars

\* C17: right after every fetch dispatch of a hook, that hook has loading =
\* true and error = null, also when an earlier fetch of the same hook failed.
C17_DispatchClearsError ==
    \A n \in DOMAIN emitted :
        (emitted[n].ev = "dispatch" /\ emitted[n].req.method = "GET") =>
            LET h == IF emitted[n].req.owner = "App" THEN rootHook ELSE cv.hook
            IN  h.loading /\ h.error = Null

\* C18: whenever an update resolves successfully, also when another update of
\* the same item is in flight or resolved before it, the cached element with
\* that id becomes this response, the collection keeps its length and order,
\* and nothing is reported: the response that resolves last wins.
C18_UpdateStep ==
    (ReturnedOk' /\ Returned'.method = "PUT" /\ PanelWrite(Returned')) =>
        LET r == Returned'
            L == IF r.owner = "ProjectsView" THEN rootHook.data ELSE cv.hook.data
            L2 == IF r.owner = "ProjectsView" THEN rootHook'.data ELSE cv'.hook.data
        IN  /\ Len(L2) = Len(L)
            /\ \A n \in DOMAIN L :
                  /\ L2[n].id = L[n].id
                  /\ L[n].id = r.itemId => L2[n] = r.resp.data[1]
            /\ emitted' = <<ResolvedOk(r)>>

C18_LastResponseWins == [][C18_UpdateStep]_vars

\* Both updates of document 1 have resolved: the server applied "c" last, the
\* response carrying "b" resolved last, and the collection holds "b".
C18_Witness ==
    /\ ReturnedOk /\ Returned.method = "PUT" /\ Returned.owner = "CrudView"
    /\ net = << >>
    /\ Returned.resp.data[1].val = "b"
    /\ srv.documents[1].val = "c"
    /\ cv.hook.data = <<Returned.resp.data[1]>>

\* C19: in every state where the CrudView is mounted and none of its fetches
\* is in flight, every item of its collection came from the endpoint of the
\* active section.
C19_ItemsOfBoundEndpoint ==
    (/\ Mounted = "CrudView"
     /\ \A n \in DOMAIN net : ~(net[n].owner = "CrudView" /\ net[n].method = "GET")) =>
        \A n \in DOMAIN cv.hook.data : cv.hook.data[n].res = EndpointOf(activeSection)

\* C20: every PUT a CrudView sends goes to the endpoint the edited item was
\* loaded from.
C20_UpdateGoesToItemsEndpoint ==
    \A n \in DOMAIN emitted :
        (emitted[n].ev = "dispatch" /\ emitted[n].req.method = "PUT"
            /\ emitted[n].req.owner = "CrudView") =>
            /\ cv.editing # << >>
            /\ emitted[n].req.endpoint = cv.editing[1].res

\* C21: while a session is open, a response of GET projects that sets App's
\* project collection was requested with the token now stored: data fetched
\* under an earlier session's token never becomes the collection shown.
C21_FetchStep ==
    (ReturnedOk' /\ Returned'.method = "GET" /\ Returned'.owner = "App"
        /\ isAuthenticated') =>
        Returned'.bearer = token'

C21_NoDataAcrossSessions == [][C21_FetchStep]_vars

\* SpecRelogin: a signed-in user who opens the Projects panel, creates
\* projects, signs out and signs in again, with the create responses and the
\* fetch responses arriving in every order.
NextRelogin ==
    \/ OpenPanel("projects")
    \/ Logout
    \/ SubmitAuth
    \/ \E i \in DOMAIN net : LoginOk(i)
    \/ \E i \in DOMAIN net : FetchOkStep(i)
    \/ PvOpenCreate
    \/ \E v \in Vals : PvType(v)
    \/ PvSubmit
    \/ \E i \in DOMAIN net : PvSaveOk(i)
    \/ \E i \in DOMAIN net : SrvLogin(i, "T1")
    \/ \E i \in DOMAIN net : SrvGet(i)
    \/ \E i \in DOMAIN net : SrvCreate(i)

SpecRelogin == InitSignedIn /\ [][NextRelogin]_vars

\* C22: the ids of the projects in App's collection are pairwise distinct,
\* whatever the order of create responses, fetch responses, logout and login.
C22_DistinctIds ==
    \A m, n \in DOMAIN rootHook.data :
        rootHook.data[m].id = rootHook.data[n].id => m = n

\* C23: the completion of an older fetch of a hook, successful or not, while a
\* fetch the hook dispatched later is still in flight leaves the hook as it
\* is: loading stays true, the collection and the error are not touched.
C23_OlderCompletes(i) ==
    /\ AwaitReturned' /\ Returned' = net[i]
    /\ \A k \in DOMAIN net : net[k] = net[i] => k = i
    /\ net[i].method = "GET" /\ net[i].owner = "App"
    /\ \E j \in DOMAIN net :
          j > i /\ net[j].method = "GET" /\ net[j].owner = "App"

C23_OlderFetchStep ==
    \A i \in DOMAIN net :
        C23_OlderCompletes(i) => rootHook.loading /\ rootHook' = rootHook

C23_OlderFetchChangesNothing == [][C23_OlderFetchStep]_vars

\* C24: when a project is selected, the projects fetch has completed
\* successfully and no request is in flight, the cached collection holds a
\* project with the selected id, so the detail panel is shown and not the
\* "Loading project details..." placeholder.
C24_PlaceholderIsTransient ==
    (/\ isAuthenticated
     /\ selectedProjectId # NullId
     /\ ~rootHook.loading /\ rootHook.error = Null
     /\ net = << >>) =>
        /\ selectedProjectId \in Ids(rootHook.data)
        /\ View.panel = "ProjectDetailView"

====
